---- MODULE Spec2Model ----
(***************************************************************************)
(* A model of cloudflare-workers-kv-sdk-rs (src/src/lib.rs): the response  *)
(* envelope check, the two clients' operations, the pagination loop of     *)
(* list_all_keys and the KvRequest builder.                                *)
(*                                                                         *)
(* One sequential caller is modelled.  It either builds a KvRequest        *)
(* (new, then modifiers) and hands it to write / write_multiple, or calls  *)
(* one of the other operations.  An operation suspends at `.send().await`; *)
(* everything the code does between two awaits of a response is one step.  *)
(***************************************************************************)
EXTENDS Integers, Sequences, FiniteSets, TLC

(***************************************************************************)
(* Bounds of the model.                                                    *)
(***************************************************************************)
\* Pages with a non-empty cursor that the modelled server serves in one call.
MaxContinue == 2
\* Modifier applications on one KvRequest.
MaxMods == 3

(***************************************************************************)
(* serde_json::Value.  An Option<T> is a sequence of length 0 or 1.        *)
(***************************************************************************)
JNull == [t |-> "null"]
JBool(b) == [t |-> "bool", b |-> b]
JNum(n) == [t |-> "num", n |-> n]
JStr(s) == [t |-> "str", s |-> s]
JArr(a) == [t |-> "arr", a |-> a]
JObj(o) == [t |-> "obj", o |-> o]

\* Marks a field that an object does not have (used to build objects only).
Absent == [t |-> "absent"]

\* The object that has the fields of f which are not Absent.
MkObj(f) == JObj([k \in {x \in DOMAIN f : f[x] # Absent} |-> f[k]])

\* Value::get(key): None unless the value is an object that has the key.
Get(v, k) ==
    IF v.t = "obj" /\ k \in DOMAIN v.o THEN <<v.o[k]>> ELSE <<>>

\* Value's Index<&str>: Null unless the value is an object that has the key.
Index(v, k) ==
    IF v.t = "obj" /\ k \in DOMAIN v.o THEN v.o[k] ELSE JNull

as_bool(v) == IF v.t = "bool" THEN <<v.b>> ELSE <<>>
as_str(v) == IF v.t = "str" THEN <<v.s>> ELSE <<>>
as_array(v) == IF v.t = "arr" THEN <<v.a>> ELSE <<>>
\* Only a non-negative integer number is a u64.
as_u64(v) == IF v.t = "num" /\ v.n >= 0 THEN <<v.n>> ELSE <<>>

(***************************************************************************)
(* Text.  A body or an error message is a text: either a text that is not  *)
(* JSON, or a serialisation of a JSON value.  ws = 0 is the compact form   *)
(* serde_json writes (no whitespace, keys in map order); ws = 1 stands     *)
(* for another serialisation of the same value (whitespace, key order).    *)
(***************************************************************************)
Plain(s) == [raw |-> "text", s |-> s]
Ser(v, ws) == [raw |-> "json", val |-> v, ws |-> ws]

\* Value::to_string(): the compact serialisation.
to_string(v) == Ser(v, 0)

\* Response::json::<Value>(): the value a JSON text denotes, None otherwise.
from_text(raw) == IF raw.raw = "json" THEN <<raw.val>> ELSE <<>>

(***************************************************************************)
(* Result<T, Box<dyn Error>> and the panic of an unwrap on None.           *)
(***************************************************************************)
Ok(ty, v) == [tag |-> "Ok", ty |-> ty, val |-> v]
\* The error of a failed send or of a body that is not JSON.
reqwest_error(stage) == [tag |-> "Err", src |-> "reqwest", msg |-> Plain(stage)]
Panic == [tag |-> "Panic"]
NoOutcome == [tag |-> "None"]

convert_string_to_error(s) == [tag |-> "Err", src |-> "io", msg |-> s]

check_success_nonbool_is_false(resp_json) ==
    LET success == Get(resp_json, "success") IN
    IF success = <<>>
    THEN convert_string_to_error(
             Plain("The returned JSON does not contain the 'success' field."))
    ELSE IF as_bool(success[1]) = <<>>
         THEN Ok("bool", FALSE)
         ELSE Ok("bool", as_bool(success[1])[1])

check_success(resp_json) ==
    LET success == Get(resp_json, "success") IN
    IF success = <<>>
    THEN convert_string_to_error(
             Plain("The returned JSON does not contain the 'success' field."))
    ELSE IF as_bool(success[1]) = <<>>
         THEN convert_string_to_error(
                  Plain("The returned 'success' field is not a boolean value."))
         ELSE Ok("bool", as_bool(success[1])[1])

\* StatusCode::is_success()
is_success(status) == status >= 200 /\ status <= 299

(***************************************************************************)
(* What every operation but get does with a response body: parse it,       *)
(* check_success with `?`, and reject an envelope whose success is false   *)
(* with the stringified envelope.  pass is TRUE when the operation goes    *)
(* on to the envelope v.                                                   *)
(***************************************************************************)
envelope_reject_fixed_message(raw) ==
    LET p == from_text(raw) IN
    IF p = <<>>
    THEN [pass |-> FALSE, out |-> reqwest_error("decode")]
    ELSE LET cs == check_success(p[1]) IN
         IF cs.tag = "Err"
         THEN [pass |-> FALSE, out |-> cs]
         ELSE IF cs.val = FALSE
              THEN [pass |-> FALSE,
                    out |-> convert_string_to_error(Plain("request failed"))]
              ELSE [pass |-> TRUE, v |-> p[1]]

envelope(raw) ==
    LET p == from_text(raw) IN
    IF p = <<>>
    THEN [pass |-> FALSE, out |-> reqwest_error("decode")]
    ELSE LET cs == check_success(p[1]) IN
         IF cs.tag = "Err"
         THEN [pass |-> FALSE, out |-> cs]
         ELSE IF cs.val = FALSE
              THEN [pass |-> FALSE,
                    out |-> convert_string_to_error(to_string(p[1]))]
              ELSE [pass |-> TRUE, v |-> p[1]]

\* What an operation did with one response: its outcome (NoOutcome while
\* list_all_keys loops), whether it read 'result' from the envelope, and
\* whether it logged the warning of a non-2xx status.
Done(out, rr, status) == [out |-> out, rr |-> rr, warn |-> ~is_success(status)]

io_error(s) == convert_string_to_error(Plain(s))

(***************************************************************************)
(* KvClient                                                                *)
(***************************************************************************)
\* A Namespace {id, title} of an element whose 'id' and 'title' are strings.
namespace_of(namespace) ==
    [id |-> as_str(Index(namespace, "id"))[1],
     title |-> as_str(Index(namespace, "title"))[1]]

\* The unwrap() of as_str() panics on an element whose 'id' or 'title' is
\* not a string (Index gives Null for a missing field).
list_namespaces(status, raw) ==
    LET e == envelope(raw) IN
    IF ~e.pass THEN Done(e.out, FALSE, status)
    ELSE LET result == Get(e.v, "result") IN
         IF result = <<>>
         THEN Done(io_error("The returned JSON does not contain the 'result' field."),
                   TRUE, status)
         ELSE IF as_array(result[1]) = <<>>
         THEN Done(io_error("The 'results' field cannot be converted to an array."),
                   TRUE, status)
         ELSE LET namespaces == as_array(result[1])[1] IN
              IF \E i \in 1..Len(namespaces) :
                     \/ as_str(Index(namespaces[i], "id")) = <<>>
                     \/ as_str(Index(namespaces[i], "title")) = <<>>
              THEN Done(Panic, TRUE, status)
              ELSE Done(Ok("namespaces",
                           [i \in 1..Len(namespaces) |-> namespace_of(namespaces[i])]),
                        TRUE, status)

create_namespace(status, raw) ==
    LET e == envelope(raw) IN
    IF ~e.pass THEN Done(e.out, FALSE, status)
    ELSE LET result == Get(e.v, "result") IN
         IF result = <<>>
         THEN Done(io_error("The returned JSON does not contain the 'result' field."),
                   TRUE, status)
         ELSE LET id == Get(result[1], "id")
                  title == Get(result[1], "title") IN
              IF id = <<>>
              THEN Done(io_error("The 'id' field cannot be found in the 'result' field."),
                        TRUE, status)
              ELSE IF as_str(id[1]) = <<>>
              THEN Done(io_error("The 'id' field cannot be converted to a string."),
                        TRUE, status)
              ELSE IF title = <<>>
              THEN Done(io_error("The 'title' field cannot be found in the'result' field."),
                        TRUE, status)
              ELSE IF as_str(title[1]) = <<>>
              THEN Done(io_error("The 'title' field cannot be converted to a string."),
                        TRUE, status)
              ELSE Done(Ok("namespace",
                           [id |-> as_str(id[1])[1], title |-> as_str(title[1])[1]]),
                        TRUE, status)

(***************************************************************************)
(* KvNamespaceClient                                                       *)
(***************************************************************************)
delete_namespace(status, raw) ==
    LET e == envelope(raw) IN
    Done(IF e.pass THEN Ok("unit", <<>>) ELSE e.out, FALSE, status)

rename_namespace(status, raw) ==
    LET e == envelope(raw) IN
    Done(IF e.pass THEN Ok("unit", <<>>) ELSE e.out, FALSE, status)

write(status, raw) ==
    LET e == envelope(raw) IN
    Done(IF e.pass THEN Ok("unit", <<>>) ELSE e.out, FALSE, status)

write_multiple_fail_on_http_error(status, raw) ==
    LET e == envelope(raw) IN
    IF ~is_success(status)
    THEN Done(io_error("Cloudflare returned an ERROR httpcode."), FALSE, status)
    ELSE Done(IF e.pass THEN Ok("unit", <<>>) ELSE e.out, FALSE, status)

write_multiple(status, raw) ==
    LET e == envelope(raw) IN
    Done(IF e.pass THEN Ok("unit", <<>>) ELSE e.out, FALSE, status)

delete(status, raw) ==
    LET e == envelope(raw) IN
    Done(IF e.pass THEN Ok("unit", <<>>) ELSE e.out, FALSE, status)

delete_multiple(status, raw) ==
    LET e == envelope(raw) IN
    Done(IF e.pass THEN Ok("unit", <<>>) ELSE e.out, FALSE, status)

read_metadata(status, raw) ==
    LET e == envelope(raw) IN
    IF ~e.pass THEN Done(e.out, FALSE, status)
    ELSE LET result == Get(e.v, "result") IN
         IF result = <<>>
         THEN Done(io_error("No result found in response."), TRUE, status)
         ELSE Done(Ok("value", result[1]), TRUE, status)

get_with_envelope_check(status, raw) ==
    LET e == envelope(raw) IN
    IF status = 404
    THEN Done(IF from_text(raw) = <<>>
              THEN reqwest_error("decode")
              ELSE convert_string_to_error(to_string(from_text(raw)[1])),
              FALSE, status)
    ELSE Done(IF e.pass THEN Ok("text", raw) ELSE e.out, FALSE, status)

\* On 404 the body is parsed (`?` on a body that is not JSON) and returned,
\* stringified, as the error; otherwise the body text is the value.
get(status, raw) ==
    IF status = 404
    THEN Done(IF from_text(raw) = <<>>
              THEN reqwest_error("decode")
              ELSE convert_string_to_error(to_string(from_text(raw)[1])),
              FALSE, status)
    ELSE Done(Ok("text", raw), FALSE, status)

\* One iteration of list_all_keys' loop ends the call with `out`, or goes on
\* (out = NoOutcome) with the keys pushed so far and the next cursor.
Iter(out, rr, status, keys, cursor) ==
    [out |-> out, rr |-> rr, warn |-> ~is_success(status),
     keys |-> keys, cursor |-> cursor]

\* keys.push(name) for every element of the page, in the page's order.
push_names_skip_known(keys, results) ==
    LET names == [i \in 1..Len(results) |-> as_str(Get(results[i], "name")[1])[1]] IN
    keys \o SelectSeq(names, LAMBDA n : \A j \in 1..Len(keys) : keys[j] # n)

push_names(keys, results) ==
    keys \o [i \in 1..Len(results) |-> as_str(Get(results[i], "name")[1])[1]]

\* The end of an iteration: break on an empty cursor, else continue with it.
next_cursor_keeps_old(out_keys, rr, status, cursor, cursor_tmp) ==
    IF cursor_tmp = ""
    THEN Iter(Ok("keys", out_keys), rr, status, <<>>, "")
    ELSE Iter(NoOutcome, rr, status, out_keys, cursor)

next_cursor_stops_on_repeat(out_keys, rr, status, cursor, cursor_tmp) ==
    IF cursor_tmp = "" \/ cursor_tmp = cursor
    THEN Iter(Ok("keys", out_keys), rr, status, <<>>, "")
    ELSE Iter(NoOutcome, rr, status, out_keys, cursor_tmp)

next_cursor(out_keys, rr, status, cursor, cursor_tmp) ==
    IF cursor_tmp = ""
    THEN Iter(Ok("keys", out_keys), rr, status, <<>>, "")
    ELSE Iter(NoOutcome, rr, status, out_keys, cursor_tmp)

list_all_keys_count_unchecked(keys, cursor, status, raw) ==
    LET e == envelope(raw)
        Fail(out, rr) == Iter(out, rr, status, <<>>, "") IN
    IF ~e.pass THEN Fail(e.out, FALSE)
    ELSE LET result == Get(e.v, "result") IN
         IF result = <<>> \/ as_array(result[1]) = <<>>
         THEN Fail(io_error("No result found in response."), TRUE)
         ELSE LET results == as_array(result[1])[1] IN
              IF \E i \in 1..Len(results) :
                     \/ Get(results[i], "name") = <<>>
                     \/ as_str(Get(results[i], "name")[1]) = <<>>
              THEN Fail(io_error("No name found in response."), TRUE)
              ELSE LET result_info == Get(e.v, "result_info") IN
                   IF result_info = <<>>
                   THEN Fail(io_error("No result_info found in response."), TRUE)
                   ELSE LET c == Get(result_info[1], "cursor")
                            count == Get(result_info[1], "count") IN
                        IF c = <<>> \/ as_str(c[1]) = <<>>
                        THEN Fail(io_error("No cursor found in response."), TRUE)
                        ELSE next_cursor(push_names(keys, results), TRUE, status,
                                         cursor, as_str(c[1])[1])

\* The body of the loop, from the response to `break` / `continue` / return.
\* An error return drops the keys pushed so far.
list_all_keys(keys, cursor, status, raw) ==
    LET e == envelope(raw)
        Fail(out, rr) == Iter(out, rr, status, <<>>, "") IN
    IF ~e.pass THEN Fail(e.out, FALSE)
    ELSE LET result == Get(e.v, "result") IN
         IF result = <<>> \/ as_array(result[1]) = <<>>
         THEN Fail(io_error("No result found in response."), TRUE)
         ELSE LET results == as_array(result[1])[1] IN
              IF \E i \in 1..Len(results) :
                     \/ Get(results[i], "name") = <<>>
                     \/ as_str(Get(results[i], "name")[1]) = <<>>
              THEN Fail(io_error("No name found in response."), TRUE)
              ELSE LET result_info == Get(e.v, "result_info") IN
                   IF result_info = <<>>
                   THEN Fail(io_error("No result_info found in response."), TRUE)
                   ELSE LET c == Get(result_info[1], "cursor")
                            count == Get(result_info[1], "count") IN
                        IF c = <<>> \/ as_str(c[1]) = <<>>
                        THEN Fail(io_error("No cursor found in response."), TRUE)
                        ELSE IF count = <<>> \/ as_u64(count[1]) = <<>>
                        THEN Fail(io_error("No count found in response."), TRUE)
                        ELSE next_cursor(push_names(keys, results), TRUE, status,
                                         cursor, as_str(c[1])[1])

(***************************************************************************)
(* KvRequest and its builder.                                              *)
(***************************************************************************)
new(key, value) ==
    [key |-> key, value |-> value, base64 |-> FALSE,
     expiration |-> <<>>, expiration_ttl |-> <<>>, metadata |-> <<>>]

enable_base64(self) ==
    [base64 |-> TRUE, key |-> self.key, value |-> self.value,
     expiration |-> self.expiration, expiration_ttl |-> self.expiration_ttl,
     metadata |-> self.metadata]

ttl_sec_clears_expiration(self, n) ==
    [base64 |-> self.base64, key |-> self.key, value |-> self.value,
     expiration |-> <<>>, expiration_ttl |-> <<n>>,
     metadata |-> self.metadata]

ttl_sec(self, n) ==
    [base64 |-> self.base64, key |-> self.key, value |-> self.value,
     expiration |-> self.expiration, expiration_ttl |-> <<n>>,
     metadata |-> self.metadata]

ttl_timestemp(self, t) ==
    [base64 |-> self.base64, key |-> self.key, value |-> self.value,
     expiration |-> <<t>>, expiration_ttl |-> self.expiration_ttl,
     metadata |-> self.metadata]

metadata_resets_base64(self, m) ==
    [base64 |-> FALSE, key |-> self.key, value |-> self.value,
     expiration |-> self.expiration, expiration_ttl |-> self.expiration_ttl,
     metadata |-> <<m>>]

metadata(self, m) ==
    [base64 |-> self.base64, key |-> self.key, value |-> self.value,
     expiration |-> self.expiration, expiration_ttl |-> self.expiration_ttl,
     metadata |-> <<m>>]

(***************************************************************************)
(* The request an operation sends: method, path under the client's url,    *)
(* and the query (list_all_keys' `?cursor={cursor}`).                      *)
(***************************************************************************)
Ops ==
    {"list_namespaces", "create_namespace", "delete_namespace", "rename_namespace",
     "write", "write_multiple", "delete", "delete_multiple", "list_all_keys",
     "read_metadata", "get"}

request_of(o, c) ==
    CASE o = "list_namespaces"  -> [method |-> "GET", path |-> "", query |-> <<>>]
      [] o = "create_namespace" -> [method |-> "POST", path |-> "", query |-> <<>>]
      [] o = "delete_namespace" -> [method |-> "DELETE", path |-> "/{ns}", query |-> <<>>]
      [] o = "rename_namespace" -> [method |-> "PUT", path |-> "/{ns}", query |-> <<>>]
      [] o = "write"            -> [method |-> "PUT", path |-> "/{ns}/bulk", query |-> <<>>]
      [] o = "write_multiple"   -> [method |-> "PUT", path |-> "/{ns}/bulk", query |-> <<>>]
      [] o = "delete"           -> [method |-> "POST", path |-> "/{ns}/bulk/delete", query |-> <<>>]
      [] o = "delete_multiple"  -> [method |-> "POST", path |-> "/{ns}/bulk/delete", query |-> <<>>]
      [] o = "list_all_keys"    -> [method |-> "GET", path |-> "/{ns}/keys", query |-> <<c>>]
      [] o = "read_metadata"    -> [method |-> "GET", path |-> "/{ns}/metadata/{key}", query |-> <<>>]
      [] o = "get"              -> [method |-> "GET", path |-> "/{ns}/values/{key}", query |-> <<>>]

\* What operation o, which is not list_all_keys, does with its response.
handle(o, status, raw) ==
    CASE o = "list_namespaces"  -> list_namespaces(status, raw)
      [] o = "create_namespace" -> create_namespace(status, raw)
      [] o = "delete_namespace" -> delete_namespace(status, raw)
      [] o = "rename_namespace" -> rename_namespace(status, raw)
      [] o = "write"            -> write(status, raw)
      [] o = "write_multiple"   -> write_multiple(status, raw)
      [] o = "delete"           -> delete(status, raw)
      [] o = "delete_multiple"  -> delete_multiple(status, raw)
      [] o = "read_metadata"    -> read_metadata(status, raw)
      [] o = "get"              -> get(status, raw)

(***************************************************************************)
(* What the server may answer: the statuses and bodies the model draws.    *)
(***************************************************************************)
Statuses == {200, 404, 500}

Env(success, result, result_info, errors) ==
    MkObj([success |-> success, result |-> result,
           result_info |-> result_info, errors |-> errors])

ns1 == MkObj([id |-> JStr("i1"), title |-> JStr("t1")])
ns2 == MkObj([id |-> JStr("i2"), title |-> JStr("t2")])
nsNoId == MkObj([id |-> Absent, title |-> JStr("t1")])
nsBadTitle == MkObj([id |-> JStr("i1"), title |-> JNum(5)])

ka == MkObj([name |-> JStr("a")])
kb == MkObj([name |-> JStr("b")])
kBadName == MkObj([name |-> JNum(1)])
kNoName == MkObj([name |-> Absent])

ResultInfo(c, count) == MkObj([cursor |-> c, count |-> count])

\* The pages list_all_keys accepts: names in order, some twice across pages.
GoodKeyResults == {JArr(<<>>), JArr(<<ka>>), JArr(<<kb, ka>>)}
KeyResults == GoodKeyResults \cup {JArr(<<ka, kBadName>>), JArr(<<kNoName>>)}
NamespaceResults ==
    {JArr(<<ns1>>), JArr(<<ns2, ns1>>), JArr(<<ns1, nsNoId>>),
     JArr(<<nsBadTitle>>), JArr(<<JStr("x")>>),
     ns1, nsNoId, nsBadTitle, JStr("r"), Absent}

ContinueInfos == {ResultInfo(JStr("X"), JNum(1)), ResultInfo(JStr("Y"), JNum(1))}
FinalInfo == ResultInfo(JStr(""), JNum(0))
ResultInfos ==
    ContinueInfos \cup
    {FinalInfo, ResultInfo(JStr("X"), Absent), ResultInfo(JStr(""), JNum(-1)),
     ResultInfo(JNum(7), JNum(1)), ResultInfo(Absent, JNum(1)), JStr("ri")}

SomeErrors == JArr(<<MkObj([code |-> JNum(10000)])>>)

\* Envelopes whose success is true.
TrueEnvelopes ==
    {Env(JBool(TRUE), r, Absent, Absent) : r \in NamespaceResults \cup KeyResults}
    \cup {Env(JBool(TRUE), r, ri, Absent) : r \in KeyResults, ri \in ResultInfos}

\* Envelopes whose success is false, is not a boolean, or is missing; and a
\* JSON document that is not an object.
NonBoolSuccess == {JStr("true"), JNum(1), JNull, Absent}
OtherEnvelopes ==
    {Env(s, Absent, Absent, SomeErrors) : s \in NonBoolSuccess \cup {JBool(FALSE)}}
    \cup {Env(s, r, FinalInfo, Absent) :
              s \in NonBoolSuccess \cup {JBool(FALSE)}, r \in {JArr(<<ka>>), ns1}}
    \cup {JArr(<<JBool(TRUE)>>)}

Documents == TrueEnvelopes \cup OtherEnvelopes

\* Bodies: every document in compact form, some in another form, and texts
\* that are not JSON.
Bodies ==
    {Ser(v, 0) : v \in Documents}
    \cup {Ser(v, 1) : v \in OtherEnvelopes \cup {Env(JBool(TRUE), JArr(<<ka>>), FinalInfo, Absent),
                                                 Env(JBool(TRUE), ns1, Absent, Absent)}}
    \cup {Plain("<html>error</html>"), Plain("stored value")}

(***************************************************************************)
(* What the caller may pass to the builder.                                *)
(***************************************************************************)
ReqKeys == {"k1", "k2"}
ReqValues == {"v"}
TtlValues == {60, 120}
Timestamps == {1700000000, 1800000000}
Metadatas == {JStr("m"), MkObj([owner |-> JStr("u")])}

\* A modifier application: which modifier, with which argument (val: an
\* Option<u64>-like sequence; json: the metadata, a JSON value).
Modifiers ==
    {[kind |-> "enable_base64", val |-> <<>>]}
    \cup {[kind |-> "ttl_sec", val |-> <<n>>] : n \in TtlValues}
    \cup {[kind |-> "ttl_timestemp", val |-> <<t>>] : t \in Timestamps}
    \cup {[kind |-> "metadata", json |-> <<m>>] : m \in Metadatas}

apply(self, m) ==
    CASE m.kind = "enable_base64" -> enable_base64(self)
      [] m.kind = "ttl_sec"       -> ttl_sec(self, m.val[1])
      [] m.kind = "ttl_timestemp" -> ttl_timestemp(self, m.val[1])
      [] m.kind = "metadata"      -> metadata(self, m.json[1])

(***************************************************************************)
(* State.                                                                  *)
(***************************************************************************)
VARIABLES
    pc,          \* "idle", "building", "sent" (awaiting a response), "done", "panicked"
    op,          \* the operation called
    requests,    \* the requests the call has sent, in order
    hist,        \* the documents of the pages list_all_keys went on from, in order
    keys,        \* list_all_keys' local `keys`
    cursor,      \* list_all_keys' local `cursor`
    outcome,     \* what the call returned
    resultRead,  \* the call read 'result' from the last response's envelope
    warned,      \* the call logged the warning of a non-2xx status
    lastResp,    \* the response the call ended on (None after a failed send)
    start,       \* the KvRequest new() returned
    recv,        \* the receiver of the last modifier call, as the caller holds it
    req,         \* the KvRequest the last builder call returned
    mods         \* the modifier applications since new(), in order

vars ==
    <<pc, op, requests, hist, keys, cursor, outcome, resultRead, warned, lastResp,
      start, recv, req, mods>>

callVars == <<op, requests, hist, keys, cursor, outcome, resultRead, warned, lastResp>>
builderVars == <<start, recv, req, mods>>

Init ==
    /\ pc = "idle"
    /\ op = "none"
    /\ requests = <<>>
    /\ hist = <<>>
    /\ keys = <<>>
    /\ cursor = ""
    /\ outcome = NoOutcome
    /\ resultRead = FALSE
    /\ warned = FALSE
    /\ lastResp = <<>>
    /\ start = <<>>
    /\ recv = <<>>
    /\ req = <<>>
    /\ mods = <<>>

(***************************************************************************)
(* The builder.                                                            *)
(***************************************************************************)
ReqNew(k, v) ==
    /\ pc = "idle"
    /\ pc' = "building"
    /\ start' = <<new(k, v)>>
    /\ req' = <<new(k, v)>>
    /\ recv' = <<>>
    /\ mods' = <<>>
    /\ UNCHANGED callVars

\* A modifier takes &self: the caller still holds the receiver afterwards.
Modify(m) ==
    /\ pc = "building"
    /\ Len(mods) < MaxMods
    /\ recv' = req
    /\ req' = <<apply(req[1], m)>>
    /\ mods' = Append(mods, m)
    /\ UNCHANGED <<pc, start, callVars>>

EnableBase64 == Modify([kind |-> "enable_base64", val |-> <<>>])
TtlSec == \E n \in TtlValues : Modify([kind |-> "ttl_sec", val |-> <<n>>])
TtlTimestemp == \E t \in Timestamps : Modify([kind |-> "ttl_timestemp", val |-> <<t>>])
Metadata == \E m \in Metadatas : Modify([kind |-> "metadata", json |-> <<m>>])

(***************************************************************************)
(* The calls.                                                              *)
(***************************************************************************)
\* Up to the first `.send().await`: the request is sent.
Send(o) ==
    /\ pc' = "sent"
    /\ op' = o
    /\ requests' = <<request_of(o, "")>>
    /\ hist' = <<>>
    /\ keys' = <<>>
    /\ cursor' = ""
    /\ outcome' = NoOutcome
    /\ resultRead' = FALSE
    /\ warned' = FALSE
    /\ lastResp' = <<>>

\* An operation that takes no KvRequest (write_multiple: of an empty vector).
Call(o) ==
    /\ pc = "idle"
    /\ o \notin {"write"}
    /\ Send(o)
    /\ UNCHANGED builderVars

\* write(payload) and write_multiple(vec![payload]): the KvRequest is moved in.
CallWrite(o) ==
    /\ pc = "building"
    /\ o \in {"write", "write_multiple"}
    /\ Send(o)
    /\ start' = <<>>
    /\ recv' = <<>>
    /\ req' = <<>>
    /\ mods' = <<>>

\* `.send().await?` fails: the call returns the transport's error.
SendFail ==
    /\ pc = "sent"
    /\ pc' = "done"
    /\ outcome' = reqwest_error("send")
    /\ keys' = <<>>
    /\ cursor' = ""
    /\ UNCHANGED <<op, requests, hist, resultRead, warned, lastResp, builderVars>>

\* The response of an operation other than list_all_keys arrives.
Respond(status, raw) ==
    /\ pc = "sent"
    /\ op # "list_all_keys"
    /\ LET r == handle(op, status, raw) IN
       /\ pc' = IF r.out = Panic THEN "panicked" ELSE "done"
       /\ outcome' = r.out
       /\ resultRead' = r.rr
       /\ warned' = r.warn
    /\ lastResp' = <<[status |-> status, body |-> raw]>>
    /\ UNCHANGED <<op, requests, hist, keys, cursor, builderVars>>

\* A page arrives and list_all_keys goes on: it sends the next request.
PageContinue(status, raw) ==
    /\ pc = "sent"
    /\ op = "list_all_keys"
    /\ Len(hist) < MaxContinue
    /\ LET r == list_all_keys(keys, cursor, status, raw) IN
       /\ r.out = NoOutcome
       /\ keys' = r.keys
       /\ cursor' = r.cursor
       /\ resultRead' = r.rr
       /\ warned' = (warned \/ r.warn)
       /\ requests' = Append(requests, request_of(op, r.cursor))
    /\ hist' = Append(hist, from_text(raw)[1])
    /\ UNCHANGED <<pc, op, outcome, lastResp, builderVars>>

\* A page arrives and list_all_keys returns.
PageFinal(status, raw) ==
    /\ pc = "sent"
    /\ op = "list_all_keys"
    /\ pc' = "done"
    /\ lastResp' = <<[status |-> status, body |-> raw]>>
    /\ LET r == list_all_keys(keys, cursor, status, raw) IN
       /\ r.out # NoOutcome
       /\ outcome' = r.out
       /\ keys' = r.keys
       /\ cursor' = r.cursor
       /\ resultRead' = r.rr
       /\ warned' = (warned \/ r.warn)
    /\ UNCHANGED <<op, requests, hist, builderVars>>

\* The caller takes the result; the next call starts afresh.
Return ==
    /\ pc = "done"
    /\ pc' = "idle"
    /\ op' = "none"
    /\ requests' = <<>>
    /\ hist' = <<>>
    /\ outcome' = NoOutcome
    /\ resultRead' = FALSE
    /\ warned' = FALSE
    /\ lastResp' = <<>>
    /\ UNCHANGED <<keys, cursor, builderVars>>

Next ==
    \/ \E k \in ReqKeys, v \in ReqValues : ReqNew(k, v)
    \/ EnableBase64
    \/ TtlSec
    \/ TtlTimestemp
    \/ Metadata
    \/ \E o \in Ops : Call(o)
    \/ \E o \in Ops : CallWrite(o)
    \/ SendFail
    \/ \E status \in Statuses, raw \in Bodies : Respond(status, raw)
    \/ \E status \in Statuses, raw \in Bodies : PageContinue(status, raw)
    \/ \E status \in Statuses, raw \in Bodies : PageFinal(status, raw)
    \/ Return

Spec == Init /\ [][Next]_vars

(***************************************************************************)
(* The error taxonomy, read off a returned value.  All three io errors     *)
(* are the same Rust type; they differ in the message.                     *)
(***************************************************************************)
\* An io error whose message is a fixed text naming a field.
IsProtocolError(out) ==
    out.tag = "Err" /\ out.src = "io" /\ out.msg.raw = "text"
\* An io error whose message is the compact serialisation of document v
\* (a RemoteRejection, or get's NotFound).
CarriesDocument(out, v) ==
    out = [tag |-> "Err", src |-> "io", msg |-> [raw |-> "json", val |-> v, ws |-> 0]]
IsTransportError(out) ==
    out.tag = "Err" /\ out.src = "reqwest"

\* The call ended on a response whose body is a JSON document.
EndedOnDocument ==
    /\ pc \in {"done", "panicked"}
    /\ lastResp # <<>>
    /\ lastResp[1].body.raw = "json"
LastDoc == lastResp[1].body.val
LastStatus == lastResp[1].status

HasField(v, k) == v.t = "obj" /\ k \in DOMAIN v.o
SuccessMissing(v) == ~HasField(v, "success")
SuccessNotBool(v) == HasField(v, "success") /\ v.o["success"].t # "bool"
SuccessIs(v, b) == HasField(v, "success") /\ v.o["success"] = [t |-> "bool", b |-> b]

\* What C1 says of the call that ended on the document at hand.
C1_Holds ==
    /\ pc = "done"
    /\ IsProtocolError(outcome)
    /\ SuccessMissing(LastDoc) =>
           outcome.msg.s = "The returned JSON does not contain the 'success' field."
    /\ SuccessNotBool(LastDoc) =>
           outcome.msg.s = "The returned 'success' field is not a boolean value."
    /\ ~resultRead

\* C1 as stated: on an envelope that lacks 'success', or whose 'success' is
\* not a boolean, every operation, get included, fails with a ProtocolError
\* and does not read 'result'.
C1_Original ==
    (EndedOnDocument /\ (SuccessMissing(LastDoc) \/ SuccessNotBool(LastDoc)))
        => C1_Holds

\* C1 amended: on an envelope that lacks 'success', or whose 'success' is not
\* a boolean, every operation except get fails with a ProtocolError (naming
\* the missing or the non-boolean field) and does not read 'result'.
C1_Amended ==
    (EndedOnDocument /\ op # "get"
     /\ (SuccessMissing(LastDoc) \/ SuccessNotBool(LastDoc)))
        => C1_Holds

\* read_metadata ended on {"success": null, "result": {...}, ...}.
C1_Witness ==
    /\ pc = "done"
    /\ op = "read_metadata"
    /\ lastResp # <<>>
    /\ lastResp[1].body = Ser(Env(JNull, ns1, FinalInfo, Absent), 0)
    /\ outcome.tag = "Err"
    /\ ~resultRead

\* What C2 says of the call that ended on the document at hand.
C2_Holds ==
    /\ pc = "done"
    /\ CarriesDocument(outcome, LastDoc)
    /\ ~resultRead

\* C2 as stated: on an envelope with success = false every operation, get
\* included, fails with a RemoteRejection whose detail is the stringified
\* envelope, returns no value and does not read 'result'.
C2_Original ==
    (EndedOnDocument /\ SuccessIs(LastDoc, FALSE)) => C2_Holds

\* C2 amended: on an envelope with success = false every operation except
\* get fails with a RemoteRejection whose detail is the stringified
\* envelope, returns no value and does not read 'result'.
C2_Amended ==
    (EndedOnDocument /\ op # "get" /\ SuccessIs(LastDoc, FALSE)) => C2_Holds

\* delete_namespace ended on a 500 whose body is a failed envelope written
\* with whitespace: the error carries the compact serialisation.
C2_Witness ==
    /\ pc = "done"
    /\ op = "delete_namespace"
    /\ lastResp # <<>>
    /\ lastResp[1].status = 500
    /\ lastResp[1].body = Ser(Env(JBool(FALSE), Absent, Absent, SomeErrors), 1)
    /\ outcome.tag = "Err"
    /\ outcome.msg # lastResp[1].body

(***************************************************************************)
(* Pages, read off the documents served.                                   *)
(***************************************************************************)
IsString(v) == v.t = "str"
IsUnsigned(v) == v.t = "num" /\ v.n >= 0

\* A page list_all_keys accepts: success = true, 'result' an array of
\* objects with a string 'name', 'result_info' with a string 'cursor' and an
\* unsigned 'count'.
WellFormedPage(v) ==
    /\ SuccessIs(v, TRUE)
    /\ HasField(v, "result")
    /\ v.o["result"].t = "arr"
    /\ \A i \in 1..Len(v.o["result"].a) :
           /\ HasField(v.o["result"].a[i], "name")
           /\ IsString(v.o["result"].a[i].o["name"])
    /\ HasField(v, "result_info")
    /\ HasField(v.o["result_info"], "cursor")
    /\ IsString(v.o["result_info"].o["cursor"])
    /\ HasField(v.o["result_info"], "count")
    /\ IsUnsigned(v.o["result_info"].o["count"])

PageNames(v) == [i \in 1..Len(v.o["result"].a) |-> v.o["result"].a[i].o["name"].s]
PageCursor(v) == v.o["result_info"].o["cursor"].s

RECURSIVE Flatten(_)
Flatten(pages) ==
    IF pages = <<>> THEN <<>> ELSE PageNames(Head(pages)) \o Flatten(Tail(pages))

\* list_all_keys was served Len(hist) pages it went on from and ended on one
\* more response.
ListEnded ==
    /\ pc = "done"
    /\ op = "list_all_keys"
    /\ lastResp # <<>>

\* C3: when list_all_keys is served well-formed successful pages of which
\* only the last has an empty cursor, it returns the concatenation of the
\* pages' names, in page order and within-page order, and has sent exactly
\* one request per page.
C3_Concatenation ==
    (/\ ListEnded
     /\ lastResp[1].body.raw = "json"
     /\ WellFormedPage(LastDoc)
     /\ PageCursor(LastDoc) = ""
     /\ \A i \in 1..Len(hist) : WellFormedPage(hist[i]) /\ PageCursor(hist[i]) # "")
        => /\ outcome = [tag |-> "Ok", ty |-> "keys",
                         val |-> Flatten(Append(hist, LastDoc))]
           /\ Len(requests) = Len(hist) + 1

\* Pages [a | X], [b, a | ""]: the call returns [a, b, a] after two requests.
C3_Witness ==
    /\ ListEnded
    /\ Len(hist) = 1
    /\ PageNames(hist[1]) = <<"a">>
    /\ lastResp[1].body.raw = "json"
    /\ WellFormedPage(LastDoc)
    /\ PageNames(LastDoc) = <<"b", "a">>
    /\ outcome.tag = "Ok"
    /\ outcome.val = <<"a", "b", "a">>
    /\ Len(requests) = 2

(***************************************************************************)
(* list_namespaces                                                         *)
(***************************************************************************)
WellFormedNamespace(v) ==
    /\ HasField(v, "id") /\ IsString(v.o["id"])
    /\ HasField(v, "title") /\ IsString(v.o["title"])

\* C4 as stated: on a successful envelope whose 'result' array has an
\* element with a missing or non-string 'id' or 'title', list_namespaces
\* returns a ProtocolError (it returns, it does not abort); when every
\* element is well-formed it returns one Namespace per element, in order.
C4_Claim ==
    (/\ EndedOnDocument
     /\ op = "list_namespaces"
     /\ SuccessIs(LastDoc, TRUE)
     /\ HasField(LastDoc, "result")
     /\ LastDoc.o["result"].t = "arr")
        => LET elems == LastDoc.o["result"].a IN
           IF \A i \in 1..Len(elems) : WellFormedNamespace(elems[i])
           THEN /\ pc = "done"
                /\ outcome = [tag |-> "Ok", ty |-> "namespaces",
                              val |-> [i \in 1..Len(elems) |->
                                          [id |-> elems[i].o["id"].s,
                                           title |-> elems[i].o["title"].s]]]
           ELSE pc = "done" /\ IsProtocolError(outcome)

(***************************************************************************)
(* get                                                                     *)
(***************************************************************************)
GetEnded ==
    /\ pc = "done"
    /\ op = "get"
    /\ lastResp # <<>>

\* C5 as stated: get returns a NotFound error carrying the parsed body
\* exactly when the status is 404; on every other status and every body it
\* returns the body text verbatim.
C5_Original ==
    GetEnded =>
        IF LastStatus = 404
        THEN /\ lastResp[1].body.raw = "json"
             /\ CarriesDocument(outcome, LastDoc)
        ELSE outcome = [tag |-> "Ok", ty |-> "text", val |-> lastResp[1].body]

\* C5 amended: get returns a NotFound error carrying the parsed body exactly
\* when the status is 404 and the body is JSON; on a 404 whose body is not
\* JSON it returns the TransportError of the failed parse; on every other
\* status and every body it returns the body text verbatim, without the
\* envelope's success check.
C5_Amended ==
    GetEnded =>
        IF LastStatus = 404
        THEN IF lastResp[1].body.raw = "json"
             THEN CarriesDocument(outcome, LastDoc)
             ELSE IsTransportError(outcome)
        ELSE outcome = [tag |-> "Ok", ty |-> "text", val |-> lastResp[1].body]

\* get ended on a 500 whose body is a failed envelope: the body is the value.
C5_Witness ==
    /\ GetEnded
    /\ LastStatus = 500
    /\ lastResp[1].body.raw = "json"
    /\ SuccessIs(LastDoc, FALSE)
    /\ outcome.tag = "Ok"
    /\ outcome.val = lastResp[1].body

(***************************************************************************)
(* The HTTP status and the envelope-checking operations.                   *)
(***************************************************************************)
\* The locals list_all_keys held when it sent its last request, read off the
\* pages it went on from.
KeysBefore == Flatten(hist)
CursorBefore == IF hist = <<>> THEN "" ELSE PageCursor(hist[Len(hist)])

\* What the operation returns when the body it ended on comes with status s.
OutcomeUnder(s) ==
    IF op = "list_all_keys"
    THEN list_all_keys(KeysBefore, CursorBefore, s, lastResp[1].body).out
    ELSE handle(op, s, lastResp[1].body).out

\* C6: for every operation except get the outcome depends on the body only:
\* the same body under any other status gives the same outcome; a non-2xx
\* response with a failed envelope gives a RemoteRejection, one whose body is
\* not JSON a TransportError.
C6_StatusIrrelevant ==
    (pc \in {"done", "panicked"} /\ lastResp # <<>> /\ op # "get")
        => /\ \A s \in Statuses : OutcomeUnder(s) = outcome
           /\ (~is_success(LastStatus) /\ lastResp[1].body.raw = "json"
               /\ SuccessIs(LastDoc, FALSE))
                  => CarriesDocument(outcome, LastDoc)
           /\ (~is_success(LastStatus) /\ lastResp[1].body.raw # "json")
                  => IsTransportError(outcome)

\* write_multiple ended on a 500 whose body is a successful envelope: Ok(()).
C6_Witness ==
    /\ pc = "done"
    /\ op = "write_multiple"
    /\ lastResp # <<>>
    /\ LastStatus = 500
    /\ lastResp[1].body.raw = "json"
    /\ SuccessIs(LastDoc, TRUE)
    /\ outcome.tag = "Ok"
    /\ warned

(***************************************************************************)
(* The builder.                                                            *)
(***************************************************************************)
Fields == {"key", "value", "base64", "expiration", "expiration_ttl", "metadata"}

\* The field a modifier targets and the value it gives it.
Target(m) ==
    CASE m.kind = "enable_base64" -> "base64"
      [] m.kind = "ttl_sec"       -> "expiration_ttl"
      [] m.kind = "ttl_timestemp" -> "expiration"
      [] m.kind = "metadata"      -> "metadata"

SetsTarget(r, m) ==
    CASE m.kind = "enable_base64" -> r.base64 = TRUE
      [] m.kind = "ttl_sec"       -> r.expiration_ttl = m.val
      [] m.kind = "ttl_timestemp" -> r.expiration = m.val
      [] m.kind = "metadata"      -> r.metadata = m.json

\* In a state reached by a builder call: new() gave the key and the value
\* with base64 false and the options unset; a modifier gave a request with
\* the targeted field set and every other field as in the receiver.
BuilderFrame ==
    (pc = "building") =>
        IF mods = <<>>
        THEN /\ req = start
             /\ req[1].key \in ReqKeys /\ req[1].value \in ReqValues
             /\ req[1].base64 = FALSE
             /\ req[1].expiration = <<>>
             /\ req[1].expiration_ttl = <<>>
             /\ req[1].metadata = <<>>
        ELSE LET m == mods[Len(mods)] IN
             /\ DOMAIN req[1] = Fields
             /\ SetsTarget(req[1], m)
             /\ \A f \in Fields \ {Target(m)} : req[1][f] = recv[1][f]

\* A modifier step leaves the receiver as the caller holds it.
ReceiverKept ==
    (pc = "building" /\ pc' = "building") => recv' = req

\* C7: each modifier leaves its receiver unchanged and returns a request
\* with the targeted field set and all other fields copied from the
\* receiver; new(key, value) has base64 = false and expiration,
\* expiration_ttl and metadata unset.
C7_BuilderFrame == [](BuilderFrame) /\ [][ReceiverKept]_vars

\* enable_base64 then metadata(m): base64 stays true, metadata is set, the
\* receiver still has no metadata.
C7_Witness ==
    /\ pc = "building"
    /\ Len(mods) = 2
    /\ mods[1].kind = "enable_base64"
    /\ mods[2].kind = "metadata"
    /\ req[1].base64 = TRUE
    /\ req[1].metadata # <<>>
    /\ recv[1].metadata = <<>>
    /\ recv[1].base64 = TRUE

RECURSIVE ApplyAll(_, _)
ApplyAll(r, ms) ==
    IF ms = <<>> THEN r ELSE ApplyAll(apply(r, Head(ms)), Tail(ms))

Perms(n) == {p \in [1..n -> 1..n] : \A i, j \in 1..n : p[i] = p[j] => i = j}
Permuted(ms, p) == [i \in 1..Len(ms) |-> ms[p[i]]]

\* No modifier is applied twice with different arguments.
OneArgPerModifier(ms) ==
    \A i, j \in 1..Len(ms) : ms[i].kind = ms[j].kind => ms[i] = ms[j]

\* Every split of the applications made so far into a starting request (the
\* result of the first i) and a sequence (the rest).
OrderIrrelevantFor(Admitted(_)) ==
    (pc = "building") =>
        \A i \in 0..Len(mods) :
            LET from == ApplyAll(start[1], SubSeq(mods, 1, i))
                rest == SubSeq(mods, i + 1, Len(mods)) IN
            Admitted(rest) =>
                /\ \A p \in Perms(Len(rest)) :
                       ApplyAll(from, Permuted(rest, p)) = req[1]
                /\ \A a, b \in 1..Len(rest) :
                       (rest[a].kind = "ttl_sec" /\ rest[b].kind = "ttl_timestemp")
                           => /\ req[1].expiration_ttl = rest[a].val
                              /\ req[1].expiration = rest[b].val

AnySequence(ms) == TRUE

\* C8 as stated: for any starting request and any sequence of modifier
\* applications, every permutation of the sequence gives the same request,
\* and ttl_sec(n) with ttl_timestemp(t) leaves both set.
C8_Original == OrderIrrelevantFor(AnySequence)

\* C8 amended: for any starting request and any sequence of modifier
\* applications in which no modifier is applied twice with different
\* arguments, every permutation of the sequence gives the same request; in
\* particular ttl_sec(n) and ttl_timestemp(t) in either order leave both
\* expiration_ttl = n and expiration = t set.
C8_Amended == OrderIrrelevantFor(OneArgPerModifier)

\* ttl_timestemp(t) then ttl_sec(n): both are set.
C8_Witness ==
    /\ pc = "building"
    /\ Len(mods) = 2
    /\ mods[1].kind = "ttl_timestemp"
    /\ mods[2].kind = "ttl_sec"
    /\ req[1].expiration = mods[1].val
    /\ req[1].expiration_ttl = mods[2].val

(***************************************************************************)
(* The pagination loop.                                                    *)
(***************************************************************************)
InList == op = "list_all_keys" /\ pc \in {"sent", "done"}

\* A page list_all_keys goes on from: well-formed, with a non-empty cursor.
ContinuePage(v) == WellFormedPage(v) /\ PageCursor(v) # ""

\* C9: within one list_all_keys call the first request carries the empty
\* cursor; every later request carries the cursor of the response before
\* it; the requests sent are one more than the responses gone on from (one
\* request awaits its response, none is sent ahead); and no request follows
\* a response with an empty cursor or an error.
C9_CursorChain ==
    InList =>
        /\ requests # <<>>
        /\ requests[1].query = <<"">>
        /\ \A i \in 1..Len(hist) :
               /\ ContinuePage(hist[i])
               /\ i + 1 <= Len(requests)
               /\ requests[i + 1].query = <<PageCursor(hist[i])>>
        /\ Len(requests) = Len(hist) + 1

\* Pages with cursors X then Y, then the end: requests with "", X, Y.
C9_Witness ==
    /\ ListEnded
    /\ Len(hist) = 2
    /\ requests[1].query = <<"">>
    /\ requests[2].query = <<"X">>
    /\ requests[3].query = <<"Y">>
    /\ Len(requests) = 3

\* The server eventually ends the listing: it serves a page with an empty
\* cursor, a failed envelope or a malformed page.
ServeEnd == \E status \in Statuses, raw \in Bodies : PageFinal(status, raw)

LiveSpec == Init /\ [][Next]_vars /\ WF_vars(ServeEnd)

\* The call ends on a response only if that response is not a page to go on
\* from, and successfully only on a well-formed page with an empty cursor,
\* the first such page served.
EndsOnlyOnFinal ==
    ListEnded =>
        /\ ~(lastResp[1].body.raw = "json" /\ ContinuePage(LastDoc))
        /\ outcome.tag = "Ok" =>
               /\ lastResp[1].body.raw = "json"
               /\ WellFormedPage(LastDoc)
               /\ PageCursor(LastDoc) = ""
        /\ (lastResp[1].body.raw = "json" /\ WellFormedPage(LastDoc)
            /\ PageCursor(LastDoc) = "") => outcome.tag = "Ok"
        /\ \A i \in 1..Len(hist) : ContinuePage(hist[i])

\* On a page to go on from, whatever its cursor (a repeated one too), the
\* call does not return: it sends the next request with the new cursor.
GoesOn ==
    (pc = "sent" /\ op = "list_all_keys" /\ hist' # hist /\ hist' # <<>>)
        => /\ pc' = "sent"
           /\ cursor' = PageCursor(hist'[Len(hist')])
           /\ cursor' # ""
           /\ outcome' = NoOutcome

\* C10: list_all_keys returns successfully at the first well-formed page with
\* an empty cursor and otherwise goes on with the new cursor; it never
\* returns on a well-formed page with a non-empty cursor (no iteration
\* bound, no repeated-cursor detection); and against a server that
\* eventually serves an empty cursor, an error or a malformed page the call
\* eventually returns.
C10_Termination ==
    /\ [](EndsOnlyOnFinal)
    /\ [][GoesOn]_vars
    /\ (pc = "sent" /\ op = "list_all_keys") ~> (pc = "done")

\* The call went on from two pages with the same cursor X and then returned
\* on a page with an empty cursor.
C10_Witness ==
    /\ ListEnded
    /\ Len(hist) = 2
    /\ PageCursor(hist[1]) = "X"
    /\ PageCursor(hist[2]) = "X"
    /\ outcome.tag = "Ok"

(***************************************************************************)
(* The pages list_all_keys requires.                                       *)
(***************************************************************************)
PageMessages ==
    {"No result found in response.", "No name found in response.",
     "No result_info found in response.", "No cursor found in response.",
     "No count found in response."}

\* The page's 'result' and 'cursor' are as required; only 'count' is not.
OnlyCountWrong(v) ==
    /\ SuccessIs(v, TRUE)
    /\ HasField(v, "result")
    /\ v.o["result"].t = "arr"
    /\ \A i \in 1..Len(v.o["result"].a) :
           /\ HasField(v.o["result"].a[i], "name")
           /\ IsString(v.o["result"].a[i].o["name"])
    /\ HasField(v, "result_info")
    /\ HasField(v.o["result_info"], "cursor")
    /\ IsString(v.o["result_info"].o["cursor"])
    /\ ~(/\ HasField(v.o["result_info"], "count")
         /\ IsUnsigned(v.o["result_info"].o["count"]))

\* C11: every page of list_all_keys, the last one included, must be
\* well-formed ('result' an array of elements with a string 'name',
\* 'result_info' with a string 'cursor' and an unsigned 'count'); on a page
\* that is not, that has success = false or that does not parse, the call
\* returns an error, and the keys of the earlier pages are not returned.
C11_EveryPageChecked ==
    /\ InList => \A i \in 1..Len(hist) : WellFormedPage(hist[i])
    /\ (ListEnded /\ outcome.tag = "Ok") =>
           (lastResp[1].body.raw = "json" /\ WellFormedPage(LastDoc))
    /\ (ListEnded /\ ~(lastResp[1].body.raw = "json" /\ WellFormedPage(LastDoc))) =>
           /\ outcome.tag = "Err"
           /\ keys = <<>>
           /\ lastResp[1].body.raw # "json" => IsTransportError(outcome)
           /\ (lastResp[1].body.raw = "json" /\ SuccessIs(LastDoc, FALSE)) =>
                  CarriesDocument(outcome, LastDoc)
           /\ (lastResp[1].body.raw = "json" /\ SuccessIs(LastDoc, TRUE)) =>
                  /\ IsProtocolError(outcome)
                  /\ outcome.msg.s \in PageMessages
                  /\ resultRead
           /\ (lastResp[1].body.raw = "json" /\ OnlyCountWrong(LastDoc)) =>
                  outcome = [tag |-> "Err", src |-> "io",
                             msg |-> [raw |-> "text",
                                      s |-> "No count found in response."]]

\* After a page with names and cursor X, a last page with names, an empty
\* cursor and a count that is not unsigned: the call returns the error.
C11_Witness ==
    /\ ListEnded
    /\ Len(hist) = 1
    /\ Flatten(hist) # <<>>
    /\ lastResp[1].body.raw = "json"
    /\ OnlyCountWrong(LastDoc)
    /\ PageCursor(LastDoc) = ""
    /\ PageNames(LastDoc) # <<>>
    /\ outcome.tag = "Err"

====
